---- MODULE Spec2Model ----
(***************************************************************************)
(* A model of .scripts/build_site.py: the walk of the source tree that     *)
(* converts notebooks and collects the tree (collect_tree), the pruning of *)
(* notebook-less directories (prune_empty_dirs), the rendering of the      *)
(* template pages (build_static_site, render_tokens) and the copy of the   *)
(* asset directories (copy_tree).                                          *)
(*                                                                         *)
(* A file name is a sequence of characters, a path a sequence of names, a  *)
(* text (template, title, page) a sequence of lexemes.  The file systems   *)
(* modelled hold plain directories and regular files, no symbolic links.   *)
(***************************************************************************)
EXTENDS Integers, Sequences, FiniteSets, TLC

VARIABLES
    fs,         \* the source tree: a set of [path, isdir], paths absolute
    out,        \* the output root (absolute path)
    tpl,        \* the template directory's pages: page name -> text, or NoFile
    tassets,    \* the asset directories the template directory holds
    title,      \* the site title
    execute,    \* the --execute flag
    clock,      \* the wall clock, in half minutes
    pc,         \* where the build is
    paths,      \* sorted(src.rglob("*"))
    i,          \* index into paths of the entry the walk is at
    k,          \* index into pages of the page the renderer is at
    j,          \* index into AssetDirs of the directory the copier is at
    nb_count,   \* collect_tree's nb_count
    dir_map,    \* collect_tree's dir_map: directory path -> node
    tree,       \* the tree collect_tree returned (None before)
    result,     \* what build_static_site returned (None before)
    outfs,      \* the files under the output root: path -> who wrote it
    outdirs,    \* the directories created under the output root
    log         \* the side effects, in the order they happened

vars == <<fs, out, tpl, tassets, title, execute, clock, pc, paths, i, k, j,
          nb_count, dir_map, tree, result, outfs, outdirs, log>>

(***************************************************************************)
(* Characters, names and paths                                             *)
(***************************************************************************)

\* The code point of a character (Python compares str by code point).
Ord(c) ==
    CASE c = "." -> 46  [] c = "/" -> 47  [] c = "<" -> 60
      [] c = "B" -> 66  [] c = "I" -> 73  [] c = "N" -> 78
      [] c = "P" -> 80  [] c = "Y" -> 89
      [] c = "a" -> 97  [] c = "b" -> 98  [] c = "c" -> 99
      [] c = "d" -> 100 [] c = "e" -> 101 [] c = "f" -> 102
      [] c = "h" -> 104 [] c = "i" -> 105 [] c = "j" -> 106
      [] c = "l" -> 108 [] c = "m" -> 109 [] c = "n" -> 110
      [] c = "o" -> 111 [] c = "p" -> 112 [] c = "r" -> 114
      [] c = "s" -> 115 [] c = "t" -> 116 [] c = "u" -> 117
      [] c = "w" -> 119 [] c = "x" -> 120 [] c = "y" -> 121

\* str.lower(), character by character.
LowerChar(c) ==
    CASE c = "B" -> "b" [] c = "I" -> "i" [] c = "N" -> "n"
      [] c = "P" -> "p" [] c = "Y" -> "y" [] OTHER -> c

Lower(s) == [x \in 1..Len(s) |-> LowerChar(s[x])]

\* s < t for two str (lexicographic by code point).
RECURSIVE StrLess(_, _)
StrLess(s, t) ==
    IF t = <<>> THEN FALSE
    ELSE IF s = <<>> THEN TRUE
    ELSE IF s[1] # t[1] THEN Ord(s[1]) < Ord(t[1])
    ELSE StrLess(Tail(s), Tail(t))

\* p < q for two paths: pathlib compares the lists of parts.
RECURSIVE PathLess(_, _)
PathLess(p, q) ==
    IF q = <<>> THEN FALSE
    ELSE IF p = <<>> THEN TRUE
    ELSE IF p[1] # q[1] THEN StrLess(p[1], q[1])
    ELSE PathLess(Tail(p), Tail(q))

\* str.rfind("."): the last index of a dot (0-based), -1 when there is none.
RFindDot(name) ==
    LET dots == {x \in 1..Len(name) : name[x] = "."}
    IN  IF dots = {} THEN -1
        ELSE (CHOOSE x \in dots : \A y \in dots : y <= x) - 1

\* PurePath.suffix
Suffix(name) ==
    LET d == RFindDot(name)
    IN  IF 0 < d /\ d < Len(name) - 1
        THEN SubSeq(name, d + 1, Len(name))
        ELSE <<>>

\* PurePath.with_suffix, on the last name of a path
WithSuffix(path, suffix) ==
    LET name == path[Len(path)]
        old  == Suffix(name)
        stem == SubSeq(name, 1, Len(name) - Len(old))
    IN  [path EXCEPT ![Len(path)] = stem \o suffix]

IsPrefix(p, q) == Len(p) <= Len(q) /\ SubSeq(q, 1, Len(p)) = p

\* path.parents: the proper prefixes of a path
InParents(p, path) == Len(p) < Len(path) /\ IsPrefix(p, path)

\* path.relative_to(base)
RelativeTo(path, base) == SubSeq(path, Len(base) + 1, Len(path))

Parent(path) == SubSeq(path, 1, Len(path) - 1)

IPYNB == <<".", "i", "p", "y", "n", "b">>
HTML  == <<".", "h", "t", "m", "l">>

None == [type |-> "none"]
NoFile == <<"<nofile>">>

(***************************************************************************)
(* The inputs: names, the source trees, the template directory             *)
(***************************************************************************)

\* Bounds of the model.
MaxFiles == 2      \* regular files in a source tree
MaxClock == 2      \* the clock stops advancing there (half minutes)

SRC_NAME == <<"s", "r", "c">>
SRC == <<SRC_NAME>>                         \* --src, resolved
A    == <<"a">>
M    == <<"m">>
SITE == <<"s", "i", "t", "e">>
OUT_INSIDE  == SRC \o <<SITE>>              \* --out site, under the source root
OUT_OUTSIDE == <<<<"o", "u", "t">>>>               \* --out elsewhere

N_IPYNB   == <<"n", ".", "i", "p", "y", "n", "b">>
N_UPPER   == <<"n", ".", "I", "P", "Y", "N", "B">>
DOT_IPYNB == <<".", "i", "p", "y", "n", "b">>
R_MD      == <<"r", ".", "m", "d">>
FileNames == {N_IPYNB, N_UPPER, DOT_IPYNB, R_MD}

DirCands == {SRC \o <<A>>, SRC \o <<A, M>>, SRC \o <<SITE>>}

\* The directory sets closed under parent, and the source trees over them.
DirSets == {D \in SUBSET DirCands : \A d \in D : Parent(d) = SRC \/ Parent(d) \in D}
FileCands(D) == {d \o <<f>> : d \in D \cup {SRC}, f \in FileNames}
Trees ==
    UNION {
        {   {[path |-> d, isdir |-> TRUE] : d \in D}
              \cup {[path |-> f, isdir |-> FALSE] : f \in F}
            : F \in {G \in SUBSET FileCands(D) : Cardinality(G) <= MaxFiles} }
        : D \in DirSets }

INDEX_HTML        == <<"i", "n", "d", "e", "x", ".", "h", "t", "m", "l">>
SOFTWARE_HTML     == <<"s", "o", "f", "t", "w", "a", "r", "e", ".", "h", "t", "m", "l">>
PUBLICATIONS_HTML == <<"p", "u", "b", "l", "i", "c", "a", "t", "i", "o", "n", "s", ".", "h", "t", "m", "l">>
RESEARCH_HTML     == <<"r", "e", "s", "e", "a", "r", "c", "h", ".", "h", "t", "m", "l">>
CSS    == <<"c", "s", "s">>
ASSETS == <<"a", "s", "s", "e", "t", "s">>
JS     == <<"j", "s">>
ASSET_FILE == <<"f">>                   \* the file an asset directory holds

\* build_static_site's pages: file name, injects TREE_JSON?
pages == << <<INDEX_HTML, FALSE>>, <<SOFTWARE_HTML, TRUE>>,
            <<PUBLICATIONS_HTML, FALSE>>, <<RESEARCH_HTML, FALSE>> >>
PageNames == {pages[x][1] : x \in 1..Len(pages)}

\* the directories build_static_site copies, in its order
AssetDirs == <<CSS, ASSETS, JS>>

(***************************************************************************)
(* Texts and render_tokens                                                 *)
(***************************************************************************)

\* A text is a sequence of lexemes: single characters, and the four key
\* words TITLE, TIMESTAMP, NBCOUNT and TREE_JSON each as one lexeme.
Whitespace == {" ", "\n"}

\* The lexemes from position p on that are whitespace (\s*, greedy).
RECURSIVE SkipSpace(_, _)
SkipSpace(text, p) ==
    IF p <= Len(text) /\ text[p] \in Whitespace THEN SkipSpace(text, p + 1) ELSE p

\* The length of the match of \{\{\s*kw\s*\}\} at the start of text, 0 if none.
MatchLen(kw, text) ==
    IF Len(text) >= 2 /\ text[1] = "{" /\ text[2] = "{"
    THEN LET a == SkipSpace(text, 3)
         IN  IF a <= Len(text) /\ text[a] = kw
             THEN LET b == SkipSpace(text, a + 1)
                  IN  IF b + 1 <= Len(text) /\ text[b] = "}" /\ text[b + 1] = "}"
                      THEN b + 1
                      ELSE 0
             ELSE 0
    ELSE 0

\* The length of the match of the pattern at position p of text, 0 if none.
MatchAt(kw, text, p) == MatchLen(kw, SubSeq(text, p, Len(text)))

\* re.sub(pattern of kw, lambda m: val, text): the matches, left to right and
\* not overlapping, replaced by val; what replaced a match is not scanned.
RECURSIVE ReSubFrom(_, _, _, _)
ReSubFrom(kw, val, text, start) ==
    LET hits == {p \in start..Len(text) : MatchAt(kw, text, p) > 0}
    IN  IF hits = {} THEN SubSeq(text, start, Len(text))
        ELSE LET p == CHOOSE q \in hits : \A r \in hits : q <= r
             IN  SubSeq(text, start, p - 1) \o val
                     \o ReSubFrom(kw, val, text, p + MatchAt(kw, text, p))

ReSub(kw, val, text) == ReSubFrom(kw, val, text, 1)

\* html.escape(s) (quote=True)
EscapeChar(c) ==
    CASE c = "&"  -> <<"&", "a", "m", "p", ";">>
      [] c = "<"  -> <<"&", "l", "t", ";">>
      [] c = ">"  -> <<"&", "g", "t", ";">>
      [] c = "\"" -> <<"&", "q", "u", "o", "t", ";">>
      [] c = "'"  -> <<"&", "#", "x", "2", "7", ";">>
      [] OTHER    -> <<c>>

RECURSIVE HtmlEscape(_)
HtmlEscape(s) == IF s = <<>> THEN <<>> ELSE EscapeChar(s[1]) \o HtmlEscape(Tail(s))

\* str.replace(old, new), for a non-empty old
RECURSIVE ReplaceFrom(_, _, _, _)
ReplaceFrom(s, old, new, start) ==
    LET hits == {p \in start..(Len(s) - Len(old) + 1) :
                    SubSeq(s, p, p + Len(old) - 1) = old}
    IN  IF hits = {} THEN SubSeq(s, start, Len(s))
        ELSE LET p == CHOOSE q \in hits : \A r \in hits : q <= r
             IN  SubSeq(s, start, p - 1) \o new
                     \o ReplaceFrom(s, old, new, p + Len(old))

Replace(s, old, new) == ReplaceFrom(s, old, new, 1)

\* str(n) for a natural number, one lexeme
Str(n) == ToString(n)

\* datetime.utcnow().strftime("%Y-%m-%d %H:%M UTC"): the clock counts half
\* minutes from 2026-01-01 10:00:00 UTC, and the format drops the seconds.
Strftime(now) ==
    LET minute == now \div 2
    IN  <<"2026-01-01", " ", "10", ":", Str(minute \div 10), Str(minute % 10),
          " ", "UTC">>

\* os.sep.join(parts), and str.replace(os.sep, "/") which leaves it alone
RECURSIVE JoinPath(_)
JoinPath(parts) ==
    IF parts = <<>> THEN <<>>
    ELSE IF Len(parts) = 1 THEN parts[1]
    ELSE parts[1] \o <<"/">> \o JoinPath(Tail(parts))

\* json.dumps of a str (ensure_ascii=False)
JsonChar(c) ==
    CASE c = "\"" -> <<"\\", "\"">> [] c = "\\" -> <<"\\", "\\">> [] OTHER -> <<c>>

RECURSIVE JsonEscape(_)
JsonEscape(s) == IF s = <<>> THEN <<>> ELSE JsonChar(s[1]) \o JsonEscape(Tail(s))

JsonStr(s) == <<"\"">> \o JsonEscape(s) \o <<"\"">>

JsonKey(key) == <<"\"", key, "\"", ":", " ">>

\* json.dumps(tree): the keys in insertion order
RECURSIVE JsonDumps(_)
RECURSIVE JsonList(_)
JsonList(nodes) ==
    IF nodes = <<>> THEN <<>>
    ELSE IF Len(nodes) = 1 THEN JsonDumps(nodes[1])
    ELSE JsonDumps(nodes[1]) \o <<",", " ">> \o JsonList(Tail(nodes))

JsonDumps(node) ==
    <<"{">> \o JsonKey("type") \o JsonStr(<<node.type>>) \o <<",", " ">>
      \o JsonKey("name") \o JsonStr(node.name) \o <<",", " ">>
      \o JsonKey("path") \o JsonStr(JoinPath(node.path)) \o <<",", " ">>
      \o (IF node.type = "dir"
          THEN JsonKey("children") \o <<"[">> \o JsonList(node.children) \o <<"]">>
          ELSE JsonKey("nb_html") \o JsonStr(JoinPath(node.nb_html)))
      \o <<"}">>

\* The TREE_JSON pass of render_tokens, which runs when a tree is given.
TreePass(text, tr) ==
    IF tr # None
    THEN LET safe_json == Replace(JsonDumps(tr), <<"<", "/">>, <<"<", "\\", "/">>)
         IN  ReSub("TREE_JSON", safe_json, text)
    ELSE text

\* render_tokens as it would be with the timestamp taken once, when the
\* module is loaded (the clock's origin), instead of at each call.
render_tokens_frozen(src_html, ttl, count, tr, now) ==
    LET ts   == Strftime(0)
        out1 == ReSub("TITLE", HtmlEscape(ttl), src_html)
        out2 == ReSub("TIMESTAMP", ts, out1)
        out3 == ReSub("NBCOUNT", <<Str(count)>>, out2)
    IN  TreePass(out3, tr)

\* render_tokens(src, title, nb_count, tree), reading the clock at now: one
\* re.sub pass per token over the whole text, in the order of the rep dict.
render_tokens(src_html, ttl, count, tr, now) ==
    LET ts   == Strftime(now)
        out1 == ReSub("TITLE", HtmlEscape(ttl), src_html)
        out2 == ReSub("TIMESTAMP", ts, out1)
        out3 == ReSub("NBCOUNT", <<Str(count)>>, out2)
    IN  TreePass(out3, tr)

(***************************************************************************)
(* collect_tree                                                            *)
(***************************************************************************)

\* sorted as it would be with the order reversed.
RECURSIVE sorted_reversed(_)
sorted_reversed(S) ==
    IF S = {} THEN <<>>
    ELSE LET last == CHOOSE p \in S : \A q \in S \ {p} : PathLess(q, p)
         IN  <<last>> \o sorted_reversed(S \ {last})

\* sorted(S) for a set of paths
RECURSIVE sorted(_)
sorted(S) ==
    IF S = {} THEN <<>>
    ELSE LET least == CHOOSE p \in S : \A q \in S \ {p} : PathLess(p, q)
         IN  <<least>> \o sorted(S \ {least})

\* src.rglob("*"): every entry below the source root
Rglob == {e.path : e \in fs}

IsDir(path) == [path |-> path, isdir |-> TRUE] \in fs

\* line 73: the entry is the output root or lies under it
InOut(path) == InParents(out, path) \/ path = out

\* lines 73-77: the entries the loop passes over
Skipped(path) == InOut(path) \/ RelativeTo(path, SRC) = <<>>

\* line 96: the file is a notebook
IsNotebook(path) == Lower(Suffix(path[Len(path)])) = IPYNB

\* the root node (lines 69 and 137)
EmptyRoot == [type |-> "dir", name |-> SRC_NAME, path |-> <<>>, children |-> <<>>]

\* lines 80-89: the directory nodes of the entry, made where missing.  dm maps
\* a directory to its node; a directory child is held by its key in dm.
RECURSIVE EnsureLoop(_, _, _, _)
EnsureLoop(dm, rel_parts, parts, idx) ==
    IF idx > Len(parts) THEN dm
    ELSE LET cur    == SRC \o SubSeq(parts, 1, idx)
             parent == SRC \o SubSeq(parts, 1, idx - 1)
             node   == [type |-> "dir", name |-> parts[idx],
                        path |-> SubSeq(rel_parts, 1, idx), children |-> <<>>]
             dm2    == IF cur \in DOMAIN dm THEN dm
                       ELSE [dm EXCEPT ![parent].children =
                                Append(@, [type |-> "dir", key |-> cur])]
                            @@ (cur :> node)
         IN  EnsureLoop(dm2, rel_parts, parts, idx + 1)

EnsureDirs(dm, path) ==
    LET rel_parts == RelativeTo(path, SRC)
        parts == IF IsDir(path) THEN rel_parts
                 ELSE SubSeq(rel_parts, 1, Len(rel_parts) - 1)
    IN  EnsureLoop(dm, rel_parts, parts, 1)

\* The node of a directory with its children in place (the dict the code holds).
RECURSIVE NodeOf(_, _)
NodeOf(dm, key) ==
    LET n == dm[key]
    IN  [n EXCEPT !.children =
            [x \in 1..Len(n.children) |->
                IF n.children[x].type = "dir"
                THEN NodeOf(dm, n.children[x].key)
                ELSE n.children[x]]]

\* line 104
OutHtml(path) == WithSuffix(out \o RelativeTo(path, SRC), HTML)

\* lines 101 and 116
FileNode(path) ==
    LET rel == RelativeTo(path, SRC)
    IN  [type |-> "file", name |-> rel[Len(rel)], path |-> rel,
         nb_html |-> RelativeTo(OutHtml(path), out)]

\* the prefixes of a path, itself included (mkdir(parents=True))
Prefixes(path) == {SubSeq(path, 1, n) : n \in 0..Len(path)}

\* lines 122-133: <<the node or None, has_ipynb>>
RECURSIVE prune_empty_dirs(_)
prune_empty_dirs(node) ==
    IF node.type = "file" THEN <<node, TRUE>>
    ELSE LET res  == [x \in 1..Len(node.children) |->
                         prune_empty_dirs(node.children[x])]
             kept == SelectSeq(res, LAMBDA r : r[1] # None)
             new_children == [x \in 1..Len(kept) |-> kept[x][1]]
             has_ipynb == \E x \in 1..Len(res) : res[x][2]
         IN  <<IF has_ipynb THEN [node EXCEPT !.children = new_children] ELSE None,
               has_ipynb>>

\* PrunedRoot as it would be without the pruning pass.
PrunedRootKeepAll(dm) == NodeOf(dm, SRC)

\* lines 135-137
PrunedRoot(dm) ==
    LET root == prune_empty_dirs(NodeOf(dm, SRC))[1]
    IN  IF root = None THEN EmptyRoot ELSE root

Event(ev, what, info) == [ev |-> ev, what |-> what, info |-> info]

\* Writing a file under the output root replaces the file of that path.
WriteFile(files, path, kind, from, text) ==
    {f \in files : f.path # path}
        \cup {[path |-> path, kind |-> kind, from |-> from, text |-> text]}

\* lines 68-72
CollectStart ==
    /\ pc = "start"
    /\ nb_count' = 0
    /\ dir_map' = (SRC :> EmptyRoot)
    /\ paths' = sorted(Rglob)
    /\ i' = 1
    /\ pc' = "walk"
    /\ UNCHANGED <<fs, out, tpl, tassets, title, execute, clock, k, j, tree,
                   result, outfs, outdirs, log>>

AtEntry == pc = "walk" /\ i <= Len(paths)

\* lines 73-77: continue
WalkSkip ==
    /\ AtEntry
    /\ Skipped(paths[i])
    /\ i' = i + 1
    /\ UNCHANGED <<fs, out, tpl, tassets, title, execute, clock, pc, paths, k, j,
                   nb_count, dir_map, tree, result, outfs, outdirs, log>>

\* lines 80-93: a directory only gets its nodes
WalkDir ==
    /\ AtEntry
    /\ ~Skipped(paths[i])
    /\ IsDir(paths[i])
    /\ dir_map' = EnsureDirs(dir_map, paths[i])
    /\ i' = i + 1
    /\ UNCHANGED <<fs, out, tpl, tassets, title, execute, clock, pc, paths, k, j,
                   nb_count, tree, result, outfs, outdirs, log>>

\* WalkOther as it would be were the count raised before the suffix test.
WalkOtherCounted ==
    /\ AtEntry
    /\ ~Skipped(paths[i])
    /\ ~IsDir(paths[i])
    /\ ~IsNotebook(paths[i])
    /\ dir_map' = EnsureDirs(dir_map, paths[i])
    /\ nb_count' = nb_count + 1
    /\ i' = i + 1
    /\ UNCHANGED <<fs, out, tpl, tassets, title, execute, clock, pc, paths, k, j,
                   tree, result, outfs, outdirs, log>>

\* lines 80-97: a file that is no notebook is passed over
WalkOther ==
    /\ AtEntry
    /\ ~Skipped(paths[i])
    /\ ~IsDir(paths[i])
    /\ ~IsNotebook(paths[i])
    /\ dir_map' = EnsureDirs(dir_map, paths[i])
    /\ i' = i + 1
    /\ UNCHANGED <<fs, out, tpl, tassets, title, execute, clock, pc, paths, k, j,
                   nb_count, tree, result, outfs, outdirs, log>>

\* lines 80-114: a notebook is counted and its conversion started
WalkConvert ==
    /\ AtEntry
    /\ ~Skipped(paths[i])
    /\ ~IsDir(paths[i])
    /\ IsNotebook(paths[i])
    /\ dir_map' = EnsureDirs(dir_map, paths[i])
    /\ nb_count' = nb_count + 1
    /\ outdirs' = outdirs \cup Prefixes(Parent(RelativeTo(OutHtml(paths[i]), out)))
    /\ log' = Append(log, Event("spawn", paths[i],
                                IF execute THEN <<"--execute">> ELSE <<>>))
    /\ pc' = "converting"
    /\ UNCHANGED <<fs, out, tpl, tassets, title, execute, clock, paths, i, k, j,
                   tree, result, outfs>>

\* lines 114-119: the converter exits with status 0, having written the
\* document; the file node joins its directory's children
ConvertExitZero ==
    /\ pc = "converting"
    /\ outfs' = WriteFile(outfs, RelativeTo(OutHtml(paths[i]), out), "doc",
                          paths[i], <<>>)
    /\ dir_map' = [dir_map EXCEPT ![Parent(paths[i])].children =
                       Append(@, FileNode(paths[i]))]
    /\ log' = Append(log, Event("exit", paths[i], <<"0">>))
    /\ i' = i + 1
    /\ pc' = "walk"
    /\ UNCHANGED <<fs, out, tpl, tassets, title, execute, clock, paths, k, j,
                   nb_count, tree, result, outdirs>>

\* ConvertExitNonZero as it would be without check=True: the exit status is
\* not looked at and the walk goes on.
ConvertExitNonZeroIgnored ==
    /\ pc = "converting"
    /\ dir_map' = [dir_map EXCEPT ![Parent(paths[i])].children =
                       Append(@, FileNode(paths[i]))]
    /\ log' = Append(log, Event("exit", paths[i], <<"1">>))
    /\ i' = i + 1
    /\ pc' = "walk"
    /\ UNCHANGED <<fs, out, tpl, tassets, title, execute, clock, paths, k, j,
                   nb_count, tree, result, outfs, outdirs>>

\* line 114: the converter exits with another status; check=True raises
\* CalledProcessError, which nothing catches
ConvertExitNonZero ==
    /\ pc = "converting"
    /\ log' = Append(log, Event("exit", paths[i], <<"1">>))
    /\ pc' = "failed"
    /\ UNCHANGED <<fs, out, tpl, tassets, title, execute, clock, paths, i, k, j,
                   nb_count, dir_map, tree, result, outfs, outdirs>>

\* lines 135-145: the walk is over; the tree is pruned and returned, and
\* build_static_site makes the output root
CollectReturn ==
    /\ pc = "walk"
    /\ i > Len(paths)
    /\ tree' = PrunedRoot(dir_map)
    /\ outdirs' = outdirs \cup {<<>>}
    /\ k' = 1
    /\ j' = 1
    /\ pc' = "pages"
    /\ UNCHANGED <<fs, out, tpl, tassets, title, execute, clock, paths, i,
                   nb_count, dir_map, result, outfs, log>>

(***************************************************************************)
(* build_static_site and copy_tree                                         *)
(***************************************************************************)

AtPage == pc = "pages" /\ k <= Len(pages)

\* PageSkip as it would be were index.html required (load_template_index
\* called on it): the missing index page raises.
PageSkipRequired ==
    /\ AtPage
    /\ tpl[pages[k][1]] = NoFile
    /\ IF pages[k][1] = INDEX_HTML
       THEN pc' = "failed" /\ k' = k
       ELSE pc' = pc /\ k' = k + 1
    /\ UNCHANGED <<fs, out, tpl, tassets, title, execute, clock, paths, i, j,
                   nb_count, dir_map, tree, result, outfs, outdirs, log>>

\* lines 154-156: the template directory has no such page; continue
PageSkip ==
    /\ AtPage
    /\ tpl[pages[k][1]] = NoFile
    /\ k' = k + 1
    /\ UNCHANGED <<fs, out, tpl, tassets, title, execute, clock, pc, paths, i, j,
                   nb_count, dir_map, tree, result, outfs, outdirs, log>>

\* PageRender as it would be were the tree handed to every page.
PageRenderAlwaysTree ==
    /\ AtPage
    /\ tpl[pages[k][1]] # NoFile
    /\ LET fname    == pages[k][1]
           html_doc == render_tokens(tpl[fname], title, nb_count, tree, clock)
       IN  /\ outfs' = WriteFile(outfs, <<fname>>, "page", <<>>, html_doc)
           /\ log' = Append(log, Event("page", fname, <<clock>>))
    /\ k' = k + 1
    /\ UNCHANGED <<fs, out, tpl, tassets, title, execute, clock, pc, paths, i, j,
                   nb_count, dir_map, tree, result, outdirs>>

\* lines 157-159: the page is read, rendered and written
PageRender ==
    /\ AtPage
    /\ tpl[pages[k][1]] # NoFile
    /\ LET fname      == pages[k][1]
           needs_tree == pages[k][2]
           html_doc   == render_tokens(tpl[fname], title, nb_count,
                                       IF needs_tree THEN tree ELSE None, clock)
       IN  /\ outfs' = WriteFile(outfs, <<fname>>, "page", <<>>, html_doc)
           /\ log' = Append(log, Event("page", fname, <<clock>>))
    /\ k' = k + 1
    /\ UNCHANGED <<fs, out, tpl, tassets, title, execute, clock, pc, paths, i, j,
                   nb_count, dir_map, tree, result, outdirs>>

\* The clock advances while the pages are rendered (render_tokens is the
\* only reader of the clock, so its advance elsewhere is not observable).
Tick ==
    /\ AtPage
    /\ clock < MaxClock
    /\ clock' = clock + 1
    /\ UNCHANGED <<fs, out, tpl, tassets, title, execute, pc, paths, i, k, j,
                   nb_count, dir_map, tree, result, outfs, outdirs, log>>

\* AtAsset as it would be were the assets copied without waiting for the pages.
AtAssetEarly == pc = "pages" /\ j <= Len(AssetDirs)

AtAsset == pc = "pages" /\ k > Len(pages) /\ j <= Len(AssetDirs)

\* copy_tree, lines 21-22: the directory does not exist; return
AssetSkip ==
    /\ AtAsset
    /\ AssetDirs[j] \notin tassets
    /\ j' = j + 1
    /\ UNCHANGED <<fs, out, tpl, tassets, title, execute, clock, pc, paths, i, k,
                   nb_count, dir_map, tree, result, outfs, outdirs, log>>

\* copy_tree, lines 23-30: the directory is made and its file copied
AssetCopy ==
    /\ AtAsset
    /\ AssetDirs[j] \in tassets
    /\ outdirs' = outdirs \cup {<<AssetDirs[j]>>}
    /\ outfs' = WriteFile(outfs, <<AssetDirs[j], ASSET_FILE>>, "asset", <<>>, <<>>)
    /\ log' = Append(log, Event("asset", AssetDirs[j], <<>>))
    /\ j' = j + 1
    /\ UNCHANGED <<fs, out, tpl, tassets, title, execute, clock, pc, paths, i, k,
                   nb_count, dir_map, tree, result>>

\* line 166 (and main's report, line 203)
Return ==
    /\ pc = "pages"
    /\ k > Len(pages)
    /\ j > Len(AssetDirs)
    /\ result' = <<nb_count>>
    /\ pc' = "done"
    /\ UNCHANGED <<fs, out, tpl, tassets, title, execute, clock, paths, i, k, j,
                   nb_count, dir_map, tree, outfs, outdirs, log>>

(***************************************************************************)
(* The specifications                                                      *)
(***************************************************************************)

T_TOKENS == <<"{", "{", " ", "TITLE", " ", "}", "}",
              "{", "{", "NBCOUNT", "}", "}",
              "{", "{", "TIMESTAMP", "}", "}",
              "{", "{", "\n", "TREE_JSON", "}", "}">>
T_TREE   == <<"x", "{", "{", "TREE_JSON", " ", "}", "}">>

AllPages(text) == [p \in PageNames |-> text]

\* The template directories of Spec: complete, and with index.html missing.
MainTemplates ==
    { [tpl |-> AllPages(T_TOKENS), tassets |-> {CSS, JS}],
      [tpl |-> [AllPages(T_TREE) EXCEPT ![INDEX_HTML] = NoFile],
       tassets |-> {ASSETS}] }

\* The template directories of SpecPages: every page missing or one of two texts.
PageTemplates ==
    { [tpl |-> t, tassets |-> {CSS}] : t \in [PageNames -> {NoFile, T_TOKENS, T_TREE}] }

\* The sources of SpecPages.
PageSources ==
    { [fs |-> { [path |-> SRC \o <<A>>, isdir |-> TRUE],
                [path |-> SRC \o <<A, N_IPYNB>>, isdir |-> FALSE],
                [path |-> SRC \o <<R_MD>>, isdir |-> FALSE] },
       out |-> OUT_OUTSIDE],
      [fs |-> { [path |-> SRC \o <<SITE>>, isdir |-> TRUE] },
       out |-> OUT_INSIDE] }

Titles == { <<"x">>, <<"<">>, <<"{", "{", "NBCOUNT", "}", "}">>,
            <<"{", "{", " ", "TREE_JSON", "}", "}">> }

InitWith(sources, templates, titles, flags, clocks) ==
    /\ \E s \in sources : fs = s.fs /\ out = s.out
    /\ \E t \in templates : tpl = t.tpl /\ tassets = t.tassets
    /\ title \in titles
    /\ execute \in flags
    /\ clock \in clocks
    /\ pc = "start"
    /\ paths = <<>>
    /\ i = 0
    /\ k = 0
    /\ j = 0
    /\ nb_count = 0
    /\ dir_map = <<>>
    /\ tree = None
    /\ result = <<>>
    /\ outfs = {}
    /\ outdirs = {}
    /\ log = <<>>

\* Spec: every source tree of Trees, the output root under the source root
\* or outside it, the two template directories of MainTemplates; the clock
\* is one half minute before the last one modelled.
Init ==
    InitWith({[fs |-> t, out |-> o] : t \in Trees, o \in {OUT_INSIDE, OUT_OUTSIDE}},
             MainTemplates, {<<"x">>}, {FALSE}, {MaxClock - 1})

\* SpecPages: two sources, every template directory of PageTemplates, every
\* title of Titles, --execute true, the clock at one of its first two values.
InitPages ==
    InitWith(PageSources, PageTemplates, Titles, {TRUE}, {0, 1})

Next ==
    \/ CollectStart
    \/ WalkSkip
    \/ WalkDir
    \/ WalkOther
    \/ WalkConvert
    \/ ConvertExitZero
    \/ ConvertExitNonZero
    \/ CollectReturn
    \/ PageSkip
    \/ PageRender
    \/ Tick
    \/ AssetSkip
    \/ AssetCopy
    \/ Return

Spec == Init /\ [][Next]_vars

SpecPages == InitPages /\ [][Next]_vars

(***************************************************************************)
(* Notions the properties are stated with                                  *)
(***************************************************************************)

\* collect_tree has returned normally
Collected == pc \in {"pages", "done"}

\* the nodes of a tree
RECURSIVE Nodes(_)
Nodes(node) ==
    IF node.type = "file" THEN {node}
    ELSE {node} \cup UNION {Nodes(node.children[x]) : x \in 1..Len(node.children)}

\* the number of file nodes of a tree, counted along the children sequences
RECURSIVE SumFiles(_, _)
RECURSIVE CountFiles(_)
SumFiles(nodes, x) ==
    IF x > Len(nodes) THEN 0 ELSE CountFiles(nodes[x]) + SumFiles(nodes, x + 1)

CountFiles(node) ==
    IF node.type = "file" THEN 1 ELSE SumFiles(node.children, 1)

DirNodes(t) == {n \in Nodes(t) : n.type = "dir"}
FileNodes(t) == {n \in Nodes(t) : n.type = "file"}

Events(ev) == {x \in 1..Len(log) : log[x].ev = ev}

SourceDirs == {e.path : e \in {d \in fs : d.isdir}}
SourceFiles == {e.path : e \in {f \in fs : ~f.isdir}}

\* the index of a page name in pages
PageIndex(name) == CHOOSE x \in 1..Len(pages) : pages[x][1] = name

IndexMissing == tpl[INDEX_HTML] = NoFile

\* the build failed and the last thing that happened is a converter's
\* non-zero exit
FailedByConversion ==
    /\ log # <<>>
    /\ log[Len(log)].ev = "exit"
    /\ log[Len(log)].info = <<"1">>

(***************************************************************************)
(* C1: a template directory without index.html                             *)
(***************************************************************************)

HasNotebookExtension(name) ==
    /\ Len(name) > Len(IPYNB)
    /\ Lower(SubSeq(name, Len(name) - Len(IPYNB) + 1, Len(name))) = IPYNB

\* the mirrored path under the output root, the extension changed to .html
Mirror(path) ==
    LET rel  == RelativeTo(path, SRC)
        name == rel[Len(rel)]
    IN  [rel EXCEPT ![Len(rel)] = SubSeq(name, 1, Len(name) - Len(IPYNB)) \o HTML]

\* C2: after a successful build every file outside the output path whose
\* name ends in the notebook extension has its own output document at the
\* mirrored path, and no other file yields a document or a tree node.
C2_OneDocumentPerNotebook ==
    pc = "done" =>
        /\ \A f \in SourceFiles :
              (~InOut(f) /\ HasNotebookExtension(f[Len(f)])) =>
                  \E d \in outfs :
                      d.kind = "doc" /\ d.path = Mirror(f) /\ d.from = f
        /\ \A d \in outfs :
              d.kind = "doc" => HasNotebookExtension(d.from[Len(d.from)])
        /\ \A n \in FileNodes(tree) : HasNotebookExtension(n.name)

(***************************************************************************)
(* C3: the directories of the returned tree                                *)
(***************************************************************************)

TreeDirPaths == {n.path : n \in DirNodes(tree)}

\* a notebook lies in the directory's subtree
NotebookUnder(d) ==
    \E f \in SourceFiles : IsNotebook(f) /\ InParents(d, f)

\* a notebook outside the output path lies in the directory's subtree
WalkedNotebookUnder(d) ==
    \E f \in SourceFiles : IsNotebook(f) /\ ~InOut(f) /\ InParents(d, f)

\* every node hangs under the node of its parent directory, up to the root
Chained(t) ==
    /\ t.type = "dir" /\ t.path = <<>> /\ t.name = SRC_NAME
    /\ \A n \in DirNodes(t) : \A x \in 1..Len(n.children) :
          n.children[x].path = n.path \o <<n.children[x].name>>

\* C3 as claimed: a directory under the source root has its node in the
\* returned tree, under the nodes of its ancestors, exactly when a notebook
\* lies in its subtree; the root is always returned, without children when
\* there is no notebook.
C3_DirKeptIffNotebookBelow ==
    Collected =>
        /\ Chained(tree)
        /\ \A d \in SourceDirs :
              (RelativeTo(d, SRC) \in TreeDirPaths) <=> NotebookUnder(d)
        /\ (~NotebookUnder(SRC)) => tree.children = <<>>

\* C3 as amended: the notebooks that count are those the walk visits, the
\* files outside the output path whose suffix, lower-cased, is .ipynb.
C3_DirKeptIffWalkedNotebookBelow ==
    Collected =>
        /\ Chained(tree)
        /\ \A d \in SourceDirs :
              (RelativeTo(d, SRC) \in TreeDirPaths) <=> WalkedNotebookUnder(d)
        /\ TreeDirPaths \ {<<>>} \subseteq {RelativeTo(d, SRC) : d \in SourceDirs}
        /\ (~WalkedNotebookUnder(SRC)) => tree.children = <<>>

\* A returned tree that holds a directory two levels down, kept for the
\* notebook below it, and lacks a directory that holds a notebook but lies
\* in the output path.
C3_Witness ==
    /\ Collected
    /\ \E p \in TreeDirPaths : Len(p) = 2
    /\ \E d \in SourceDirs :
          InOut(d) /\ NotebookUnder(d) /\ RelativeTo(d, SRC) \notin TreeDirPaths

(***************************************************************************)
(* C4: a failed conversion aborts the build                                *)
(***************************************************************************)

\* C4: once a converter has exited with a non-zero status nothing more
\* happens: that exit is the last side effect, the notebook was started once
\* (no retry), no page is written, no asset copied, and neither a tree nor a
\* notebook count is returned.
C4_ConversionFailureAborts ==
    /\ \A x \in Events("exit") :
          log[x].info = <<"1">> => (x = Len(log) /\ pc = "failed")
    /\ pc = "failed" =>
          /\ FailedByConversion
          /\ Cardinality({x \in Events("spawn") :
                             log[x].what = log[Len(log)].what}) = 1
          /\ Events("page") = {}
          /\ Events("asset") = {}
          /\ \A f \in outfs : f.kind = "doc"
          /\ tree = None
          /\ result = <<>>

\* The build has failed with a notebook still ahead in the walk.
C4_Witness ==
    /\ pc = "failed"
    /\ \E y \in (i + 1)..Len(paths) :
          ~Skipped(paths[y]) /\ ~IsDir(paths[y]) /\ IsNotebook(paths[y])

(***************************************************************************)
(* C6: the order of the children                                           *)
(***************************************************************************)

\* C6: in the returned tree the children of every directory node are in
\* ascending order of name (by code point), directories and files alike.
C6_ChildrenOrderedByName ==
    Collected =>
        \A n \in DirNodes(tree) :
            \A x, y \in 1..Len(n.children) :
                x < y => StrLess(n.children[x].name, n.children[y].name)

\* A returned tree with a directory node whose file child comes before a
\* directory child.
C6_Witness ==
    /\ Collected
    /\ \E n \in DirNodes(tree) :
          \E x, y \in 1..Len(n.children) :
              /\ x < y
              /\ n.children[x].type = "file"
              /\ n.children[y].type = "dir"

(***************************************************************************)
(* C9: the order of the side effects                                       *)
(***************************************************************************)

\* C9: a conversion that was started exits before anything else happens,
\* and the walk is at its entry meanwhile; the conversions run in the
\* order of the walk; every conversion precedes every page; the pages are
\* written in the order of the page list; the assets are copied after the
\* last page.
C9_SideEffectsOrdered ==
    /\ \A x \in Events("spawn") :
          IF x = Len(log)
          THEN pc = "converting" /\ log[x].what = paths[i]
          ELSE log[x + 1].ev = "exit" /\ log[x + 1].what = log[x].what
    /\ \A x \in Events("exit") : x > 1 /\ log[x - 1].ev = "spawn"
    /\ pc = "converting" => (log # <<>> /\ log[Len(log)].ev = "spawn")
    /\ \A x, y \in Events("spawn") :
          x < y => PathLess(log[x].what, log[y].what)
    /\ \A x, y \in 1..Len(log) :
          x < y => ~(log[x].ev \in {"page", "asset"} /\ log[y].ev \in {"spawn", "exit"})
    /\ \A x, y \in Events("page") :
          x < y => PageIndex(log[x].what) < PageIndex(log[y].what)
    /\ \A x, y \in 1..Len(log) :
          x < y => ~(log[x].ev = "asset" /\ log[y].ev = "page")
    /\ Events("asset") # {} => k > Len(pages)

\* A build that returned after two conversions, two pages and an asset.
C9_Witness ==
    /\ pc = "done"
    /\ Cardinality(Events("exit")) >= 2
    /\ Cardinality(Events("page")) >= 2
    /\ Events("asset") # {}

(***************************************************************************)
(* C10: the notebook count                                                 *)
(***************************************************************************)

\* C10: when collect_tree has returned, its count is the number of file
\* nodes of the returned tree and the number of conversions run; a file node
\* has no children and carries nb_html; pruning removed no file node.
C10_CountIsFileNodes ==
    Collected =>
        /\ nb_count = CountFiles(tree)
        /\ nb_count = Cardinality(Events("spawn"))
        /\ nb_count = Cardinality(Events("exit"))
        /\ \A n \in FileNodes(tree) :
              "children" \notin DOMAIN n /\ "nb_html" \in DOMAIN n
        /\ CountFiles(NodeOf(dir_map, SRC)) = CountFiles(tree)
        /\ FileNodes(NodeOf(dir_map, SRC)) = FileNodes(tree)

\* collect_tree returned two notebooks, having pruned a directory and passed
\* over a file that is no notebook.
C10_Witness ==
    /\ Collected
    /\ nb_count >= 1
    /\ DOMAIN dir_map # {SRC \o p : p \in TreeDirPaths}
    /\ \E f \in SourceFiles : ~InOut(f) /\ ~IsNotebook(f)

(***************************************************************************)
(* Notions of the page properties                                          *)
(***************************************************************************)

PagesWritten == {f \in outfs : f.kind = "page"}

\* the clock reading of the render that wrote the page
ReadingOf(name) ==
    LET x == CHOOSE y \in Events("page") : log[y].what = name
    IN  log[x].info[1]

NeedsTree(name) == pages[PageIndex(name)][2]

HasToken(kw, text) == \E p \in 1..Len(text) : MatchAt(kw, text, p) > 0

SafeJson(tr) == Replace(JsonDumps(tr), <<"<", "/">>, <<"<", "\\", "/">>)

\* The text with each token replaced by its value in one pass from left to
\* right, the values copied as they are; vals maps the key words to replace
\* to their values.
RECURSIVE VerbatimFrom(_, _, _)
VerbatimFrom(text, vals, start) ==
    LET hits == {p \in start..Len(text) :
                    \E kw \in DOMAIN vals : MatchAt(kw, text, p) > 0}
    IN  IF hits = {} THEN SubSeq(text, start, Len(text))
        ELSE LET p  == CHOOSE q \in hits : \A r \in hits : q <= r
                 kw == CHOOSE w \in DOMAIN vals : MatchAt(w, text, p) > 0
             IN  SubSeq(text, start, p - 1) \o vals[kw]
                     \o VerbatimFrom(text, vals, p + MatchAt(kw, text, p))

ValuesOf(name) ==
    LET base == ("TITLE" :> HtmlEscape(title))
                  @@ ("TIMESTAMP" :> Strftime(ReadingOf(name)))
                  @@ ("NBCOUNT" :> <<Str(nb_count)>>)
    IN  IF NeedsTree(name) THEN base @@ ("TREE_JSON" :> SafeJson(tree)) ELSE base

\* The page rendered without a tree, piece by piece between the TREE_JSON
\* tokens of the template, each of these tokens copied as it stands.
RECURSIVE TreeTokensKept(_, _, _)
TreeTokensKept(text, now, start) ==
    LET hits == {p \in start..Len(text) : MatchAt("TREE_JSON", text, p) > 0}
    IN  IF hits = {}
        THEN render_tokens(SubSeq(text, start, Len(text)), title, nb_count, None, now)
        ELSE LET p == CHOOSE q \in hits : \A r \in hits : q <= r
                 m == MatchAt("TREE_JSON", text, p)
             IN  render_tokens(SubSeq(text, start, p - 1), title, nb_count, None, now)
                     \o SubSeq(text, p, p + m - 1)
                     \o TreeTokensKept(text, now, p + m)

(***************************************************************************)
(* C5: substitution values are not scanned again                           *)
(***************************************************************************)

\* C5: every page written is its template with each token replaced by its
\* value, the values standing in the page as they are (a title that holds
\* a token keeps it).
C5_ValuesNotRescanned ==
    \A f \in PagesWritten :
        f.text = VerbatimFrom(tpl[f.path[1]], ValuesOf(f.path[1]), 1)

(***************************************************************************)
(* C7: one timestamp for all the pages of a build                          *)
(***************************************************************************)

Occurs(sub, text) ==
    \E p \in 1..(Len(text) - Len(sub) + 1) : SubSeq(text, p, p + Len(sub) - 1) = sub

ShowsTimestamp(name) == HasToken("TIMESTAMP", tpl[name])

\* C7 as claimed: the pages of one build that show the timestamp show the
\* same one.
C7_OneTimestampPerBuild ==
    \A f, g \in PagesWritten :
        (ShowsTimestamp(f.path[1]) /\ ShowsTimestamp(g.path[1]))
            => Strftime(ReadingOf(f.path[1])) = Strftime(ReadingOf(g.path[1]))

\* C7 as amended: the timestamp is taken by each render: a page that shows
\* the timestamp shows the time, to the minute, at which that page was
\* rendered.
C7_TimestampPerRender ==
    \A f \in PagesWritten :
        ShowsTimestamp(f.path[1])
            => Occurs(Strftime(ReadingOf(f.path[1])), f.text)

\* Two pages of one build that show timestamps of different minutes.
C7_Witness ==
    \E f, g \in PagesWritten :
        /\ ShowsTimestamp(f.path[1])
        /\ ShowsTimestamp(g.path[1])
        /\ Occurs(Strftime(ReadingOf(f.path[1])), f.text)
        /\ Occurs(Strftime(ReadingOf(g.path[1])), g.text)
        /\ Strftime(ReadingOf(f.path[1])) # Strftime(ReadingOf(g.path[1]))

(***************************************************************************)
(* C8: TREE_JSON only in the pages that need the tree                      *)
(***************************************************************************)

\* C8: a page not marked as needing the tree keeps every TREE_JSON token of
\* its template as it stands, the text between them rendered as usual; in
\* the page marked as needing it the tokens are replaced by the tree.
C8_TreeOnlyWhereNeeded ==
    \A f \in PagesWritten :
        LET name == f.path[1]
            now  == ReadingOf(name)
        IN  IF NeedsTree(name)
            THEN /\ name = SOFTWARE_HTML
                 /\ f.text = render_tokens(tpl[name], title, nb_count, tree, now)
                 /\ HasToken("TREE_JSON", tpl[name])
                       => f.text # TreeTokensKept(tpl[name], now, 1)
            ELSE f.text = TreeTokensKept(tpl[name], now, 1)

\* Two pages written from templates that hold the TREE_JSON token, one that
\* needs the tree and one that does not, the tree holding a notebook.
C8_Witness ==
    /\ nb_count >= 1
    /\ HasToken("TREE_JSON", tpl[SOFTWARE_HTML])
    /\ HasToken("TREE_JSON", tpl[PUBLICATIONS_HTML])
    /\ HasToken("TITLE", tpl[PUBLICATIONS_HTML])
    /\ \E f \in PagesWritten : f.path = <<SOFTWARE_HTML>>
    /\ \E f \in PagesWritten : f.path = <<PUBLICATIONS_HTML>>

====
